---- MODULE Spec2Model ----
(***************************************************************************)
(* Vision-anchored autograder: the box clustering engine                   *)
(* (extract_text_positions.py), the annotation layout engine               *)
(* (create_overlay.py) and the pipeline controller (run_pipeline.py,       *)
(* gpt_corrections.py).                                                    *)
(*                                                                         *)
(* Conventions.  Python lists are TLA+ sequences, so list positions are    *)
(* 1-based here (Python index p is position p+1); region ids keep the      *)
(* Python values 0..N-1.  Pixel coordinates are integers.  A box centre    *)
(* (x1+x2)/2.0 is kept doubled (x1+x2), and compared against a doubled     *)
(* tolerance, which is exact for integer corners.  Confidences are kept in *)
(* thousandths (0.9 is 900).  A text is the sequence of its characters.   *)
(***************************************************************************)
EXTENDS Integers, Sequences, FiniteSets, TLC

VARIABLES
    \* ---- improved_group_nearby_boxes ----
    text_data,     \* the argument: list of word boxes
    config,        \* the argument: grouping config (a dict, or None)
    boxes,         \* local: copies of the input boxes
    grouped,       \* local: regions emitted so far
    used,          \* local: set of consumed positions
    i,             \* outer loop position
    group,         \* local: positions of the boxes of the current group, in the order added
    changed,       \* local: the while flag
    j,             \* inner for position
    ret,           \* the returned list (valid when pc = "done")
    members,       \* history: for each emitted region, the group handed to merge_boxes
    prev_members,  \* history: members of the previous call on the same text_data
    prev_config,   \* history: config of the previous call
    calls,         \* number of calls made on this text_data
    pc,
    \* ---- create_overlay ----
    img_width,     \* original.size
    img_height,
    font_size,     \* the argument
    font_found,    \* environment: whether one of get_font's font files exists
    corrections,   \* the argument: list of correction records
    assessment,    \* the argument: the overall_assessment dict
    total_height,  \* local
    font,          \* local: get_font(font_size)
    mark_size,     \* local
    k,             \* position of the for loop over corrections
    drawn,         \* the draw calls made on the overlay so far, in order
    footer,        \* the draw calls of draw_overall_assessment, in order
    output_path,   \* the argument: where the overlay is saved
    composite_path,\* local
    files,         \* environment: the image files written, by path
    opc,
    \* ---- run_pipeline ----
    ocr_mode,      \* which of use_ocr_json / Vision / skip_ocr supplies the boxes
    judge_mode,    \* which of use_corrections_json / live call / skip_openai supplies the payload
    source,        \* environment: what the judge (or the corrections file) holds
    payload,       \* local "corrections": the judge payload run_pipeline holds
    ppc,
    \* ---- wrap_text ----
    w_text,        \* the argument text
    w_font,        \* the argument font
    w_max_width,   \* the argument max_width
    w_lines,       \* the returned list of lines (valid when wpc = "done")
    wpc

gvars == <<text_data, config, boxes, grouped, used, i, group, changed, j, ret,
           members, prev_members, prev_config, calls, pc>>

ovars == <<img_width, img_height, font_size, font_found, corrections, assessment,
           total_height, font, mark_size, k, drawn, footer, output_path,
           composite_path, files, opc>>

pvars == <<ocr_mode, judge_mode, source, payload, ppc>>

wvars == <<w_text, w_font, w_max_width, w_lines, wpc>>

vars == <<gvars, ovars, pvars, wvars>>

(***************************************************************************)
(* Bounds of the model.                                                    *)
(***************************************************************************)
MaxBoxes == 3

(***************************************************************************)
(* Small helpers.                                                          *)
(***************************************************************************)
Abs(n) == IF n < 0 THEN -n ELSE n

Min2(a, b) == IF a <= b THEN a ELSE b

Max2(a, b) == IF a >= b THEN a ELSE b

RECURSIVE SeqMin(_)
SeqMin(s) == IF Len(s) = 1 THEN s[1] ELSE Min2(s[1], SeqMin(Tail(s)))

RECURSIVE SeqMax(_)
SeqMax(s) == IF Len(s) = 1 THEN s[1] ELSE Max2(s[1], SeqMax(Tail(s)))

RECURSIVE SeqSum(_)
SeqSum(s) == IF s = <<>> THEN 0 ELSE s[1] + SeqSum(Tail(s))

Range(s) == {s[p] : p \in DOMAIN s}

\* dict.get(key, default)
Get(d, key, default) == IF key \in DOMAIN d THEN d[key] ELSE default

(***************************************************************************)
(* Word boxes, as extract_text_with_positions builds them from the OCR     *)
(* vertices: top_left is the minimum and bottom_right the maximum corner.  *)
(***************************************************************************)
MkBBox(xs, ys) ==
    [top_left     |-> <<SeqMin(xs), SeqMin(ys)>>,
     bottom_right |-> <<SeqMax(xs), SeqMax(ys)>>,
     width        |-> SeqMax(xs) - SeqMin(xs),
     height       |-> SeqMax(ys) - SeqMin(ys)]

MkWord(id, text, conf, xs, ys) ==
    [id |-> id, text |-> text, confidence |-> conf, bbox |-> MkBBox(xs, ys)]

\* The words the model draws its inputs from.  A, B are the spec's example;
\* A-B-C is a chain (A~B, B~C, not A~C under the default config); D sits
\* under A; E is further down (under D once max_vertical_gap is doubled); G
\* merges with A, and B with D, only under a doubled alignment tolerance.
\* Ids are what an earlier OCR run numbered them.
WordA == MkWord(4, <<"A">>, 900, <<10, 50>>, <<10, 30>>)
WordB == MkWord(0, <<"B">>, 800, <<55, 90>>, <<12, 32>>)
WordC == MkWord(7, <<"C">>, 500, <<160, 200>>, <<14, 34>>)
WordD == MkWord(2, <<"D">>, 950, <<12, 52>>, <<60, 80>>)
WordE == MkWord(9, <<"E">>, 700, <<14, 54>>, <<140, 160>>)
WordG == MkWord(1, <<"G">>, 333, <<70, 110>>, <<70, 90>>)

WordPool == {WordA, WordB, WordC, WordD, WordE, WordG}

\* A second detection at A's top-left corner with another text.
WordX == MkWord(5, <<"X">>, 600, <<10, 48>>, <<10, 28>>)

\* The words of the reading-order runs: two boxes share a sort key.
ReadingPool == {WordA, WordB, WordD, WordX}

RECURSIVE SeqsUpTo(_, _)
SeqsUpTo(S, n) ==
    IF n = 0 THEN {<<>>}
    ELSE LET shorter == SeqsUpTo(S, n - 1)
         IN shorter \cup {Append(s, x) : s \in {t \in shorter : Len(t) = n - 1}, x \in S}

(***************************************************************************)
(* Grouping config.                                                        *)
(***************************************************************************)
DefaultMaxHorizontalGap == 80
DefaultMaxVerticalGap == 40
DefaultHorizontalAlignmentTolerance == 25
DefaultVerticalAlignmentTolerance == 40

ConfigKeys == {"max_horizontal_gap", "max_vertical_gap",
               "horizontal_alignment_tolerance", "vertical_alignment_tolerance"}

ConfigDefault(key) ==
    CASE key = "max_horizontal_gap" -> DefaultMaxHorizontalGap
      [] key = "max_vertical_gap" -> DefaultMaxVerticalGap
      [] key = "horizontal_alignment_tolerance" -> DefaultHorizontalAlignmentTolerance
      [] key = "vertical_alignment_tolerance" -> DefaultVerticalAlignmentTolerance

\* The dict improved_group_nearby_boxes substitutes for config = None.
DefaultConfig == [key \in ConfigKeys |-> ConfigDefault(key)]

NoneConfig == [is_none |-> TRUE]

\* {}
EmptyDict == [key \in {} |-> 0]

EmptyConfig == EmptyDict

\* adaptive_grouping_config: max_horizontal_gap and vertical_alignment_tolerance
\* scale with max(1.0, width/1000), the other two with max(1.0, height/1000);
\* int() truncates, and every product here is non-negative.
adaptive_grouping_config(image_width, image_height) ==
    LET scale(base, dim) == IF dim <= 1000 THEN base ELSE (base * dim) \div 1000
    IN [max_horizontal_gap |-> scale(DefaultMaxHorizontalGap, image_width),
        max_vertical_gap |-> scale(DefaultMaxVerticalGap, image_height),
        horizontal_alignment_tolerance |-> scale(DefaultHorizontalAlignmentTolerance, image_height),
        vertical_alignment_tolerance |-> scale(DefaultVerticalAlignmentTolerance, image_width)]

\* Image sizes the configs are derived from.
ImageDims == {800, 2000}

\* The values a threshold is raised to between two calls.
ThresholdValues(key) == {ConfigDefault(key), 2 * ConfigDefault(key)}

ZeroConfig == [key \in ConfigKeys |-> 0]

\* The configs extract_text_with_positions can pass on: the adaptive one, a
\* custom one, {} (custom_config or {} with use_adaptive_config off), or None.
ConfigPool ==
    {adaptive_grouping_config(w, h) : w \in ImageDims, h \in ImageDims}
    \cup {ZeroConfig, NoneConfig, EmptyConfig}

(***************************************************************************)
(* Geometry predicates.                                                    *)
(***************************************************************************)
\* Doubled centre: (x1 + x2, y1 + y2) stands for ((x1+x2)/2.0, (y1+y2)/2.0).
calculate_box_center(bbox) ==
    <<bbox.top_left[1] + bbox.bottom_right[1], bbox.top_left[2] + bbox.bottom_right[2]>>

boxes_are_horizontally_aligned(box1, box2, tolerance) ==
    Abs(calculate_box_center(box1.bbox)[2] - calculate_box_center(box2.bbox)[2]) <= 2 * tolerance

boxes_are_vertically_aligned(box1, box2, tolerance) ==
    Abs(calculate_box_center(box1.bbox)[1] - calculate_box_center(box2.bbox)[1]) <= 2 * tolerance

calculate_gap_between_boxes(box1, box2) ==
    LET x1_right == box1.bbox.bottom_right[1]
        x2_left == box2.bbox.top_left[1]
        x2_right == box2.bbox.bottom_right[1]
        x1_left == box1.bbox.top_left[1]
    IN IF x2_left >= x1_right THEN x2_left - x1_right
       ELSE IF x1_left >= x2_right THEN x1_left - x2_right
       ELSE 0

\* A plausible slip: the horizontal gap compared the wrong way round.
should_merge_boxes_GapFlipped(box1, box2, cfg) ==
    LET max_horizontal_gap == Get(cfg, "max_horizontal_gap", DefaultMaxHorizontalGap)
        max_vertical_gap == Get(cfg, "max_vertical_gap", DefaultMaxVerticalGap)
        h_tol == Get(cfg, "horizontal_alignment_tolerance", DefaultHorizontalAlignmentTolerance)
        v_tol == Get(cfg, "vertical_alignment_tolerance", DefaultVerticalAlignmentTolerance)
        b1 == box1.bbox.bottom_right[2]
        t2 == box2.bbox.top_left[2]
        b2 == box2.bbox.bottom_right[2]
        t1 == box1.bbox.top_left[2]
    IN \/ /\ boxes_are_horizontally_aligned(box1, box2, h_tol)
          /\ calculate_gap_between_boxes(box1, box2) >= max_horizontal_gap
       \/ /\ boxes_are_vertically_aligned(box1, box2, v_tol)
          /\ \/ (t2 >= b1 /\ (t2 - b1) <= max_vertical_gap)
             \/ (t1 >= b2 /\ (t1 - b2) <= max_vertical_gap)

should_merge_boxes(box1, box2, cfg) ==
    LET max_horizontal_gap == Get(cfg, "max_horizontal_gap", DefaultMaxHorizontalGap)
        max_vertical_gap == Get(cfg, "max_vertical_gap", DefaultMaxVerticalGap)
        h_tol == Get(cfg, "horizontal_alignment_tolerance", DefaultHorizontalAlignmentTolerance)
        v_tol == Get(cfg, "vertical_alignment_tolerance", DefaultVerticalAlignmentTolerance)
        b1 == box1.bbox.bottom_right[2]
        t2 == box2.bbox.top_left[2]
        b2 == box2.bbox.bottom_right[2]
        t1 == box1.bbox.top_left[2]
    IN \/ /\ boxes_are_horizontally_aligned(box1, box2, h_tol)
          /\ calculate_gap_between_boxes(box1, box2) <= max_horizontal_gap
       \/ /\ boxes_are_vertically_aligned(box1, box2, v_tol)
          /\ \/ (t2 >= b1 /\ (t2 - b1) <= max_vertical_gap)
             \/ (t1 >= b2 /\ (t1 - b2) <= max_vertical_gap)

(***************************************************************************)
(* merge_boxes.                                                            *)
(***************************************************************************)
\* The sort key of merge_boxes: (top_left y, top_left x).
SortKeyLess(a, b) ==
    \/ a.bbox.top_left[2] < b.bbox.top_left[2]
    \/ /\ a.bbox.top_left[2] = b.bbox.top_left[2]
       /\ a.bbox.top_left[1] < b.bbox.top_left[1]

\* Insert b after every element whose key is not greater (stable).
RECURSIVE InsertSorted(_, _)
InsertSorted(s, b) ==
    IF s = <<>> THEN <<b>>
    ELSE IF SortKeyLess(b, s[1]) THEN <<b>> \o s
    ELSE <<s[1]>> \o InsertSorted(Tail(s), b)

\* A plausible slip: the group is joined in the order its boxes were added.
sorted_Unsorted(bs) == bs

\* sorted(boxes, key=...): Python's sort is stable.
RECURSIVE sorted(_)
sorted(bs) ==
    IF bs = <<>> THEN <<>>
    ELSE InsertSorted(sorted(SubSeq(bs, 1, Len(bs) - 1)), bs[Len(bs)])

\* ' '.join(texts)
RECURSIVE join(_)
join(texts) ==
    IF texts = <<>> THEN <<>>
    ELSE IF Len(texts) = 1 THEN texts[1]
    ELSE texts[1] \o <<" ">> \o join(Tail(texts))

\* round(total / n, 3) in thousandths: nearest integer to total / n, a tie
\* going to the even neighbour.
RoundedMean(total, n) ==
    LET q == total \div n
        r == total % n
    IN IF 2 * r < n THEN q
       ELSE IF 2 * r > n THEN q + 1
       ELSE IF q % 2 = 0 THEN q ELSE q + 1

ValueError == [error |-> "ValueError"]

IsError(v) == "error" \in DOMAIN v

\* A plausible slip: the envelope taken from the first and the last box in
\* reading order instead of from every corner.
merged_bbox_FirstLast(sorted_boxes) ==
    LET first == sorted_boxes[1].bbox
        last == sorted_boxes[Len(sorted_boxes)].bbox
    IN [top_left |-> first.top_left,
        bottom_right |-> last.bottom_right,
        width |-> last.bottom_right[1] - first.top_left[1],
        height |-> last.bottom_right[2] - first.top_left[2]]

\* Lines 119-131: xs and ys collect both corners of every box.
merged_bbox(sorted_boxes) ==
    LET n == Len(sorted_boxes)
        xs == [p \in 1..(2 * n) |->
                 IF p % 2 = 1 THEN sorted_boxes[(p + 1) \div 2].bbox.top_left[1]
                 ELSE sorted_boxes[p \div 2].bbox.bottom_right[1]]
        ys == [p \in 1..(2 * n) |->
                 IF p % 2 = 1 THEN sorted_boxes[(p + 1) \div 2].bbox.top_left[2]
                 ELSE sorted_boxes[p \div 2].bbox.bottom_right[2]]
    IN [top_left |-> <<SeqMin(xs), SeqMin(ys)>>,
        bottom_right |-> <<SeqMax(xs), SeqMax(ys)>>,
        width |-> SeqMax(xs) - SeqMin(xs),
        height |-> SeqMax(ys) - SeqMin(ys)]

merge_boxes(bs) ==
    IF bs = <<>> THEN ValueError
    ELSE IF Len(bs) = 1 THEN bs[1]
    ELSE LET sorted_boxes == sorted(bs)
             n == Len(sorted_boxes)
         IN [id |-> sorted_boxes[1].id,
             text |-> join([p \in 1..n |-> sorted_boxes[p].text]),
             confidence |-> RoundedMean(SeqSum([p \in 1..n |-> Get(sorted_boxes[p], "confidence", 500)]), n),
             bbox |-> merged_bbox(sorted_boxes),
             original_boxes |-> n]

(***************************************************************************)
(* improved_group_nearby_boxes, one action per control point.              *)
(***************************************************************************)
\* A plausible slip: the candidate tested against the seed only.
AnyMerge_SeedOnly(grp, cand, cfg) ==
    should_merge_boxes(boxes[grp[1]], cand, cfg)

\* any(should_merge_boxes(g, cand, config) for g in group)
AnyMerge(grp, cand, cfg) ==
    \E p \in DOMAIN grp : should_merge_boxes(boxes[grp[p]], cand, cfg)

GroupBoxes(grp) == [p \in DOMAIN grp |-> boxes[grp[p]]]

GroupIdle ==
    /\ text_data = <<>>
    /\ config = NoneConfig
    /\ boxes = <<>>
    /\ grouped = <<>>
    /\ used = {}
    /\ i = 1
    /\ group = <<>>
    /\ changed = FALSE
    /\ j = 1
    /\ ret = <<>>
    /\ members = <<>>
    /\ prev_members = <<>>
    /\ prev_config = NoneConfig
    /\ calls = 0
    /\ pc = "idle"

OverlayIdle ==
    /\ img_width = 0
    /\ img_height = 0
    /\ font_size = 0
    /\ font_found = FALSE
    /\ corrections = <<>>
    /\ assessment = EmptyDict
    /\ total_height = 0
    /\ font = EmptyDict
    /\ mark_size = 0
    /\ k = 1
    /\ drawn = <<>>
    /\ footer = <<>>
    /\ output_path = <<>>
    /\ composite_path = <<>>
    /\ files = EmptyDict
    /\ opc = "idle"

PipelineIdle ==
    /\ ocr_mode = "none"
    /\ judge_mode = "none"
    /\ source = EmptyDict
    /\ payload = EmptyDict
    /\ ppc = "idle"

WrapIdle ==
    /\ w_text = <<>>
    /\ w_font = EmptyDict
    /\ w_max_width = 0
    /\ w_lines = <<>>
    /\ wpc = "idle"

InitGroup ==
    /\ OverlayIdle
    /\ PipelineIdle
    /\ WrapIdle
    /\ text_data \in SeqsUpTo(WordPool, MaxBoxes)
    /\ config \in ConfigPool
    /\ boxes = <<>>
    /\ grouped = <<>>
    /\ used = {}
    /\ i = 1
    /\ group = <<>>
    /\ changed = FALSE
    /\ j = 1
    /\ ret = <<>>
    /\ members = <<>>
    /\ prev_members = <<>>
    /\ prev_config = NoneConfig
    /\ calls = 1
    /\ pc = "start"

\* Lines 144-155: the early return on empty input, the default config, the copies.
Enter ==
    /\ pc = "start"
    /\ IF text_data = <<>>
       THEN /\ ret' = text_data
            /\ pc' = "done"
            /\ UNCHANGED <<config, boxes, grouped, used, i>>
       ELSE /\ config' = IF config = NoneConfig THEN DefaultConfig ELSE config
            /\ boxes' = text_data
            /\ grouped' = <<>>
            /\ used' = {}
            /\ i' = 1
            /\ pc' = "for_i"
            /\ UNCHANGED ret
    /\ UNCHANGED <<text_data, group, changed, j, members, prev_members, prev_config, calls>>
    /\ UNCHANGED <<ovars, pvars, wvars>>

\* A plausible slip: the "if i in used: continue" test left out.
ForI_NoUsedCheck ==
    /\ pc = "for_i"
    /\ i <= Len(boxes)
    /\ group' = <<i>>
    /\ used' = used \cup {i}
    /\ changed' = TRUE
    /\ pc' = "while"
    /\ UNCHANGED <<text_data, config, boxes, grouped, i, j, ret, members, prev_members,
                   prev_config, calls>>
    /\ UNCHANGED <<ovars, pvars, wvars>>

\* Lines 156-161: the next position of the outer loop, skipped when used, else the seed.
ForI ==
    /\ pc = "for_i"
    /\ i <= Len(boxes)
    /\ IF i \in used
       THEN /\ i' = i + 1
            /\ UNCHANGED <<group, used, changed, pc>>
       ELSE /\ group' = <<i>>
            /\ used' = used \cup {i}
            /\ changed' = TRUE
            /\ pc' = "while"
            /\ UNCHANGED i
    /\ UNCHANGED <<text_data, config, boxes, grouped, j, ret, members, prev_members, prev_config, calls>>
    /\ UNCHANGED <<ovars, pvars, wvars>>

\* Lines 162-164: the while test; a new scan starts with changed = False.
While ==
    /\ pc = "while"
    /\ IF changed
       THEN /\ changed' = FALSE
            /\ j' = 1
            /\ pc' = "for_j"
       ELSE /\ pc' = "merge"
            /\ UNCHANGED <<changed, j>>
    /\ UNCHANGED <<text_data, config, boxes, grouped, used, i, group, ret, members,
                   prev_members, prev_config, calls>>
    /\ UNCHANGED <<ovars, pvars, wvars>>

\* Lines 164-170: one candidate of the scan.
ForJ ==
    /\ pc = "for_j"
    /\ IF j > Len(boxes)
       THEN /\ pc' = "while"
            /\ UNCHANGED <<group, used, changed, j>>
       ELSE /\ j' = j + 1
            /\ UNCHANGED pc
            /\ IF j \notin used /\ AnyMerge(group, boxes[j], config)
               THEN /\ group' = Append(group, j)
                    /\ used' = used \cup {j}
                    /\ changed' = TRUE
               ELSE UNCHANGED <<group, used, changed>>
    /\ UNCHANGED <<text_data, config, boxes, grouped, i, ret, members, prev_members,
                   prev_config, calls>>
    /\ UNCHANGED <<ovars, pvars, wvars>>

\* A plausible slip: the region keeps the id merge_boxes gave it.
Merge_KeepId ==
    /\ pc = "merge"
    /\ LET merged == merge_boxes(GroupBoxes(group))
       IN IF IsError(merged)
          THEN /\ pc' = "raised"
               /\ UNCHANGED <<grouped, members, i>>
          ELSE /\ grouped' = Append(grouped, merged)
               /\ members' = Append(members, group)
               /\ i' = i + 1
               /\ pc' = "for_i"
    /\ UNCHANGED <<text_data, config, boxes, used, group, changed, j, ret, prev_members,
                   prev_config, calls>>
    /\ UNCHANGED <<ovars, pvars, wvars>>

\* Lines 171-173: merge the group, renumber, emit; merge_boxes' ValueError propagates.
Merge ==
    /\ pc = "merge"
    /\ LET merged == merge_boxes(GroupBoxes(group))
       IN IF IsError(merged)
          THEN /\ pc' = "raised"
               /\ UNCHANGED <<grouped, members, i>>
          ELSE /\ grouped' = Append(grouped, [merged EXCEPT !.id = Len(grouped)])
               /\ members' = Append(members, group)
               /\ i' = i + 1
               /\ pc' = "for_i"
    /\ UNCHANGED <<text_data, config, boxes, used, group, changed, j, ret, prev_members,
                   prev_config, calls>>
    /\ UNCHANGED <<ovars, pvars, wvars>>

\* Line 174.
Return ==
    /\ pc = "for_i"
    /\ i > Len(boxes)
    /\ ret' = grouped
    /\ pc' = "done"
    /\ UNCHANGED <<text_data, config, boxes, grouped, used, i, group, changed, j, members,
                   prev_members, prev_config, calls>>
    /\ UNCHANGED <<ovars, pvars, wvars>>

\* A second call on the same words with one threshold raised.
Recluster ==
    /\ pc = "done"
    /\ calls = 1
    /\ \E key \in ConfigKeys :
         \E v \in ThresholdValues(key) :
            /\ v > Get(config, key, ConfigDefault(key))
            /\ LET base == IF config = NoneConfig THEN DefaultConfig ELSE config
               IN config' = [c \in DOMAIN base \cup {key} |-> IF c = key THEN v ELSE base[c]]
    /\ prev_config' = config
    /\ prev_members' = members
    /\ members' = <<>>
    /\ calls' = 2
    /\ boxes' = <<>>
    /\ grouped' = <<>>
    /\ used' = {}
    /\ i' = 1
    /\ group' = <<>>
    /\ changed' = FALSE
    /\ j' = 1
    /\ ret' = <<>>
    /\ pc' = "start"
    /\ UNCHANGED text_data
    /\ UNCHANGED <<ovars, pvars, wvars>>

NextGroup == Enter \/ ForI \/ While \/ ForJ \/ Merge \/ Return \/ Recluster

Spec == InitGroup /\ [][NextGroup]_vars

\* improved_group_nearby_boxes over words of which two share a top-left corner.
InitReading ==
    /\ OverlayIdle
    /\ PipelineIdle
    /\ WrapIdle
    /\ text_data \in SeqsUpTo(ReadingPool, MaxBoxes)
    /\ config \in {DefaultConfig, NoneConfig, EmptyConfig}
    /\ boxes = <<>>
    /\ grouped = <<>>
    /\ used = {}
    /\ i = 1
    /\ group = <<>>
    /\ changed = FALSE
    /\ j = 1
    /\ ret = <<>>
    /\ members = <<>>
    /\ prev_members = <<>>
    /\ prev_config = NoneConfig
    /\ calls = 1
    /\ pc = "start"

SpecReading == InitReading /\ [][NextGroup]_vars

(***************************************************************************)
(* create_overlay.                                                         *)
(*                                                                         *)
(* The overlay is the sequence of draw calls made on it.  A draw call is a *)
(* record: op ("line", "ellipse", "rectangle" or "text"), its coordinates, *)
(* and src, the position of the correction that made it (history).  A text *)
(* call also keeps the measured size of its text and tried, the positions  *)
(* (text_x, text_y) took in turn before the clamp (history).               *)
(***************************************************************************)
FontSizes == {12, 32}

ImageWidths == {100, 400}

ImageHeights == {60, 300}

\* get_font: a TrueType font at the asked size when a font file exists,
\* else PIL's built-in bitmap font.
get_font(size) ==
    IF font_found THEN [kind |-> "truetype", size |-> size] ELSE [kind |-> "default"]

\* test_draw.textbbox((0, 0), text, font=font): the measured (width, height).
\* The glyph metrics are the font's: a fixed advance per character and a
\* line height (6 x 11 for the built-in font).
textbbox(text, fnt) ==
    IF fnt.kind = "truetype"
    THEN <<Len(text) * ((fnt.size * 6) \div 10), fnt.size>>
    ELSE <<Len(text) * 6, 11>>

\* A plausible slip: only a box degenerate on both axes is skipped.
SkipBBox_BothAxes(width, height) == width <= 0 /\ height <= 0

\* Line 124.
SkipBBox(width, height) == width <= 0 \/ height <= 0

\* Lines 128-131: int(mark_size / 1.5), int(mark_size * 2.0), int(mark_size / 2)
\* truncate non-negative values.
CheckmarkOps(top_left, bottom_right, msize, src) ==
    LET check_x == bottom_right[1] + 10
        check_y == (top_left[2] + bottom_right[2]) \div 2
        d == (msize * 2) \div 3
    IN << [op |-> "line", from |-> <<check_x, check_y>>,
           to |-> <<check_x + d, check_y + d>>, src |-> src],
          [op |-> "line", from |-> <<check_x + d, check_y + d>>,
           to |-> <<check_x + msize * 2, check_y - (msize \div 2)>>, src |-> src] >>

\* Lines 133-146.
OutlineOps(marking, top_left, bottom_right, msize, src) ==
    IF marking = "circle"
    THEN LET padding == msize \div 4
         IN << [op |-> "ellipse",
                box |-> << <<top_left[1] - padding, top_left[2] - padding>>,
                           <<bottom_right[1] + padding, bottom_right[2] + padding>> >>,
                src |-> src] >>
    ELSE LET padding == msize \div 5
         IN << [op |-> "rectangle",
                box |-> << <<top_left[1] - padding, top_left[2] - padding>>,
                           <<bottom_right[1] + padding, bottom_right[2] + padding>> >>,
                src |-> src] >>

\* A plausible slip: the "above" retry left out, "below" tried right after "left".
LabelTried_NoAbove(top_left, bottom_right, text_width, text_height, msize, width) ==
    LET right == <<bottom_right[1] + msize + 10, top_left[2]>>
        left == <<top_left[1] - text_width - 10, top_left[2]>>
        below == <<top_left[1], bottom_right[2] + 5>>
    IN IF right[1] + text_width > width
       THEN IF left[1] < 0
            THEN <<right, left, below>>
            ELSE <<right, left>>
       ELSE <<right>>

\* Lines 158-166: the values (text_x, text_y) takes, in order.
LabelTried(top_left, bottom_right, text_width, text_height, msize, width) ==
    LET right == <<bottom_right[1] + msize + 10, top_left[2]>>
        left == <<top_left[1] - text_width - 10, top_left[2]>>
        above == <<top_left[1], top_left[2] - text_height - 5>>
        below == <<top_left[1], bottom_right[2] + 5>>
    IN IF right[1] + text_width > width
       THEN IF left[1] < 0
            THEN IF above[2] < 0
                 THEN <<right, left, above, below>>
                 ELSE <<right, left, above>>
            ELSE <<right, left>>
       ELSE <<right>>

\* Lines 148-169.
LabelOps(correction, top_left, bottom_right, src) ==
    LET corrected_text == Get(correction, "corrected_text", <<>>)
    IN IF corrected_text # <<>> /\ corrected_text # Get(correction, "original_text", <<>>)
       THEN LET size == textbbox(corrected_text, font)
                text_width == size[1]
                text_height == size[2]
                tried == LabelTried(top_left, bottom_right, text_width, text_height,
                                    mark_size, img_width)
                last == tried[Len(tried)]
                text_x == Max2(0, Min2(last[1], img_width - text_width))
                text_y == Max2(0, Min2(last[2], img_height - text_height))
            IN << [op |-> "text", xy |-> <<text_x, text_y>>, text |-> corrected_text,
                   width |-> text_width, height |-> text_height,
                   tried |-> tried, src |-> src] >>
       ELSE <<>>

\* A plausible slip: the label drawn for every marked status.
DrawByStatus_LabelAlways(correction, top_left, bottom_right, src) ==
    LET status == Get(correction, "status", "incorrect")
        marking == Get(correction, "marking", "rectangle")
    IN IF status = "correct"
       THEN CheckmarkOps(top_left, bottom_right, mark_size, src)
                \o LabelOps(correction, top_left, bottom_right, src)
       ELSE IF status = "incorrect"
       THEN OutlineOps(marking, top_left, bottom_right, mark_size, src)
                \o LabelOps(correction, top_left, bottom_right, src)
       ELSE <<>>

\* Lines 127-171: the if / elif chain on status.
DrawByStatus(correction, top_left, bottom_right, src) ==
    LET status == Get(correction, "status", "incorrect")
        marking == Get(correction, "marking", "rectangle")
    IN IF status = "correct"
       THEN CheckmarkOps(top_left, bottom_right, mark_size, src)
       ELSE IF status = "incorrect"
       THEN OutlineOps(marking, top_left, bottom_right, mark_size, src)
                \o LabelOps(correction, top_left, bottom_right, src)
       ELSE <<>>

\* Lines 114-171: the body of the for loop, for the correction at position src.
DrawCorrection(correction, src) ==
    LET bbox == Get(correction, "bbox", EmptyDict)
    IN IF DOMAIN bbox = {} THEN <<>>
       ELSE LET top_left == Get(bbox, "top_left", <<0, 0>>)
                bottom_right == Get(bbox, "bottom_right", <<0, 0>>)
                width == bottom_right[1] - top_left[1]
                height == bottom_right[2] - top_left[2]
            IN IF SkipBBox(width, height) THEN <<>>
               ELSE DrawByStatus(correction, top_left, bottom_right, src)

(***************************************************************************)
(* wrap_text and draw_overall_assessment.                                  *)
(***************************************************************************)
IsSpace(c) == c \in {" ", "\t", "\n"}

\* str.split(): the maximal runs of non-whitespace characters, in order.
RECURSIVE SplitFrom(_, _, _, _)
SplitFrom(text, n, cur, acc) ==
    IF n > Len(text)
    THEN IF cur = <<>> THEN acc ELSE Append(acc, cur)
    ELSE IF IsSpace(text[n])
    THEN SplitFrom(text, n + 1, <<>>, IF cur = <<>> THEN acc ELSE Append(acc, cur))
    ELSE SplitFrom(text, n + 1, Append(cur, text[n]), acc)

split(text) == SplitFrom(text, 1, <<>>, <<>>)

\* Lines 81-95: the loop over words from position n on; the result is
\* (current_line, lines) when the words are exhausted.
RECURSIVE WrapLoop(_, _, _, _, _, _)
WrapLoop(words, n, current_line, lines, fnt, max_width) ==
    IF n > Len(words) THEN <<current_line, lines>>
    ELSE LET word == words[n]
             test_line == join(Append(current_line, word))
             text_width == textbbox(test_line, fnt)[1]
         IN IF text_width <= max_width
            THEN WrapLoop(words, n + 1, Append(current_line, word), lines, fnt, max_width)
            ELSE IF current_line # <<>>
            THEN WrapLoop(words, n + 1, <<word>>, Append(lines, join(current_line)),
                          fnt, max_width)
            ELSE WrapLoop(words, n + 1, current_line, Append(lines, word), fnt, max_width)

\* A plausible slip: the words still held in current_line are not flushed.
wrap_text_NoFinalFlush(text, fnt, max_width) ==
    WrapLoop(split(text), 1, <<>>, <<>>, fnt, max_width)[2]

\* Lines 75-98.
wrap_text(text, fnt, max_width) ==
    LET end == WrapLoop(split(text), 1, <<>>, <<>>, fnt, max_width)
    IN IF end[1] # <<>> THEN Append(end[2], join(end[1])) ELSE end[2]

green_color == <<0, 150, 0, 255>>
red_color == <<220, 0, 0, 255>>
blue_color == <<0, 0, 180, 255>>
black_color == <<0, 0, 0, 255>>
orange_color == <<255, 165, 0, 255>>

NotProvided == <<"N", "o", "t", " ", "p", "r", "o", "v", "i", "d", "e", "d">>
StatusCorrect == <<"c", "o", "r", "r", "e", "c", "t">>
StatusIncorrect == <<"i", "n", "c", "o", "r", "r", "e", "c", "t">>
StatusPartial == <<"p", "a", "r", "t", "i", "a", "l">>
TitleText ==
    <<"O", "V", "E", "R", "A", "L", "L", " ", "A", "S", "S", "E",
    "S", "S", "M", "E", "N", "T">>
FinalAnswerText == <<"F", "i", "n", "a", "l", " ", "A", "n", "s", "w", "e", "r", ":">>
KeyStrengthsText == 
    <<"K", "e", "y", " ", "S", "t", "r", "e", "n", "g", "t", "h",
    "s", ":">>
AreasText ==
    <<"A", "r", "e", "a", "s", " ", "f", "o", "r", " ", "I", "m",
    "p", "r", "o", "v", "e", "m", "e", "n", "t", ":">>

\* str.upper() on the letters the texts here use.
UpperChar(c) ==
    CASE c = "a" -> "A" [] c = "b" -> "B" [] c = "c" -> "C" [] c = "d" -> "D"
      [] c = "e" -> "E" [] c = "i" -> "I" [] c = "l" -> "L" [] c = "n" -> "N"
      [] c = "o" -> "O" [] c = "p" -> "P" [] c = "r" -> "R" [] c = "t" -> "T"
      [] c = "v" -> "V"
      [] OTHER -> c

upper(text) == [n \in DOMAIN text |-> UpperChar(text[n])]

\* The bullet character U+2022 of lines 58 and 68, as one character.
Bullet == "bullet"

\* A footer draw call: draw.text((x, y), text, fill=fill, font=font).
FooterText(x, y, text, fill) == [op |-> "text", xy |-> <<x, y>>, text |-> text, fill |-> fill]

\* A plausible slip: the colour of any status but "correct" is red.
status_color_RedDefault(final_status) ==
    IF final_status = StatusCorrect THEN green_color ELSE red_color

\* Line 45.
status_color(final_status) ==
    IF final_status = StatusCorrect THEN green_color
    ELSE IF final_status = StatusIncorrect THEN red_color
    ELSE orange_color

\* Lines 53 and 63: the block is drawn for a value that is truthy and not the placeholder.
ShowBlock(value) == value # <<>> /\ value # NotProvided

\* Lines 54-60 and 64-70: a header, then one bulleted line per wrapped line;
\* the result is (draw calls, current_y).
BlockOps(header, value, fill, width, size, y) ==
    LET line_spacing == (size * 3) \div 2
        wrapped == wrap_text(value, get_font(size), width - 80)
    IN << <<FooterText(20, y, header, blue_color)>>
            \o [n \in DOMAIN wrapped |->
                  FooterText(40, y + line_spacing + (n - 1) * (line_spacing - 5),
                             <<Bullet, " ">> \o wrapped[n], fill)],
          y + line_spacing + Len(wrapped) * (line_spacing - 5) + 10 >>

\* Lines 30-72: the draw calls of the footer, in order.
draw_overall_assessment(assess, width, height, size) ==
    LET start_y == height + 50
        line_spacing == (size * 3) \div 2
        final_status == Get(assess, "final_answer_status", NotProvided)
        y1 == start_y + line_spacing + 10
        y2 == y1 + line_spacing
        y3 == y2 + line_spacing
        strengths == Get(assess, "key_strengths", NotProvided)
        improvements == Get(assess, "areas_for_improvement", NotProvided)
        block1 == IF ShowBlock(strengths)
                  THEN BlockOps(KeyStrengthsText, strengths, green_color, width, size, y3)
                  ELSE << <<>>, y3 >>
        block2 == IF ShowBlock(improvements)
                  THEN BlockOps(AreasText, improvements, red_color, width, size, block1[2])
                  ELSE << <<>>, block1[2] >>
    IN << FooterText(20, start_y, TitleText, black_color),
          FooterText(20, y1, FinalAnswerText, blue_color),
          FooterText(40, y2, <<"-", " ">> \o upper(final_status), status_color(final_status)) >>
       \o block1[1] \o block2[1]

\* The texts of the judge's records.
Text1 == <<"1">>
Text7 == <<"7">>
TextShort == <<"x", "=", "1">>
TextLong == <<"x", " ", "=", " ", "1", "2">>

BB(x1, y1, x2, y2) == [top_left |-> <<x1, y1>>, bottom_right |-> <<x2, y2>>]

\* The correction records the model draws its inputs from: every status, both
\* markings, missing keys (dict.get defaults), boxes near each image edge,
\* and boxes of zero and negative extent.
CorrectionPool ==
    { [status |-> "correct", bbox |-> BB(0, 0, 40, 20)],
      [status |-> "correct", bbox |-> BB(40, 10, 90, 30),
       original_text |-> Text1, corrected_text |-> Text7],
      [status |-> "incorrect", marking |-> "circle", bbox |-> BB(5, 5, 60, 25),
       original_text |-> Text1, corrected_text |-> Text7],
      [status |-> "incorrect", marking |-> "rectangle", bbox |-> BB(40, 10, 90, 30),
       original_text |-> TextShort, corrected_text |-> TextLong],
      [status |-> "incorrect", bbox |-> BB(5, 50, 60, 58),
       original_text |-> Text1, corrected_text |-> Text7],
      [status |-> "incorrect", marking |-> "circle", bbox |-> BB(40, 10, 90, 30),
       original_text |-> Text7, corrected_text |-> Text7],
      [bbox |-> [bottom_right |-> <<40, 20>>], corrected_text |-> Text7],
      [status |-> "ignore", bbox |-> BB(5, 5, 60, 25),
       original_text |-> Text1, corrected_text |-> Text7],
      [status |-> "partial", bbox |-> BB(5, 5, 60, 25), corrected_text |-> Text7],
      [status |-> "incorrect", bbox |-> BB(5, 5, 5, 5), corrected_text |-> Text7],
      [status |-> "correct", bbox |-> BB(30, 5, 10, 25)],
      [status |-> "incorrect", original_text |-> Text1, corrected_text |-> Text7] }

MaxCorrections == 2

MaxTextLen == 8

\* str.replace(old, new): every non-overlapping occurrence, left to right.
RECURSIVE ReplaceFrom(_, _, _, _)
ReplaceFrom(s, n, old, new) ==
    IF n > Len(s) THEN <<>>
    ELSE IF n + Len(old) - 1 <= Len(s) /\ SubSeq(s, n, n + Len(old) - 1) = old
    THEN new \o ReplaceFrom(s, n + Len(old), old, new)
    ELSE <<s[n]>> \o ReplaceFrom(s, n + 1, old, new)

replace(s, old, new) == ReplaceFrom(s, 1, old, new)

DotPng == <<".", "p", "n", "g">>
CompleteDotPng == <<"_", "c", "o", "m", "p", "l", "e", "t", "e", ".", "p", "n", "g">>

\* Image.save(path): the file at path now holds this image.
save(fs, path, image) ==
    [p \in DOMAIN fs \cup {path} |-> IF p = path THEN image ELSE fs[p]]

\* The default of the output_path parameter (line 101) and of --output (line 190).
DefaultOutputPath ==
    <<"c", "o", "r", "r", "e", "c", "t", "e", "d", "_", "o", "v", "e", "r", "l", "a", "y", ".", "p", "n", "g">>

\* Output paths a caller can supply, each of an image format that holds the
\* overlay and the composite.
PathPool ==
    {DefaultOutputPath,
     <<"o", ".", "p", "n", "g">>,
     <<"o", ".", "t", "i", "f">>,
     <<"o", ".", "p", "n", "g", ".", "p", "n", "g">>,
     <<"o", ".", "P", "N", "G">>}

\* One value of each optional field of overall_assessment, or none.
Optional(values) == {{}} \cup {{v} : v \in values}

StatusCapital == <<"C", "o", "r", "r", "e", "c", "t">>
StrengthsShort == <<"o", "k">>
StrengthsLong ==
    <<"n", "e", "a", "t", " ", "a", "n", "d", " ", "c", "l", "e", "a", "r", " ", "s", "t", "e", "p", "s", " ", "s", "h", "o", "w", "n">>
ImprovementsText == <<"c", "h", "e", "c", "k", " ", "s", "i", "g", "n", "s">>

AssessmentKeys == {"final_answer_status", "key_strengths", "areas_for_improvement"}

MkAssessment(status, strengths, improvements) ==
    LET field(key) == IF key = "final_answer_status" THEN status
                      ELSE IF key = "key_strengths" THEN strengths
                      ELSE improvements
    IN [key \in {x \in AssessmentKeys : field(x) # {}} |-> CHOOSE v \in field(key) : TRUE]

\* overall_assessment objects: each field absent or one of a few texts.
AssessmentPool ==
    {MkAssessment(s, ks, ai) :
        s \in Optional({StatusCorrect, StatusIncorrect, StatusPartial, StatusCapital}),
        ks \in Optional({<<>>, NotProvided, StrengthsShort, StrengthsLong}),
        ai \in Optional({<<>>, NotProvided, ImprovementsText})}

\* The locals of create_overlay before its first line.
OverlayLocals ==
    /\ total_height = 0
    /\ font = EmptyDict
    /\ mark_size = 0
    /\ k = 1
    /\ drawn = <<>>
    /\ footer = <<>>
    /\ composite_path = <<>>
    /\ files = EmptyDict
    /\ opc = "start"

InitOverlay ==
    /\ GroupIdle
    /\ PipelineIdle
    /\ WrapIdle
    /\ img_width \in ImageWidths
    /\ img_height \in ImageHeights
    /\ font_size \in FontSizes
    /\ font_found \in BOOLEAN
    /\ corrections \in SeqsUpTo(CorrectionPool, MaxCorrections)
    /\ assessment = EmptyDict
    /\ output_path = DefaultOutputPath
    /\ OverlayLocals

\* Lines 102-111: the canvas, the font, the mark size.
OpenImage ==
    /\ opc = "start"
    /\ total_height' = img_height + font_size * 20
    /\ font' = get_font(font_size)
    /\ mark_size' = (font_size * 12) \div 10
    /\ k' = 1
    /\ drawn' = <<>>
    /\ opc' = "loop"
    /\ UNCHANGED <<img_width, img_height, font_size, font_found, corrections, assessment>>
    /\ UNCHANGED <<footer, output_path, composite_path, files>>
    /\ UNCHANGED <<gvars, pvars, wvars>>

\* Lines 113-171: one iteration of the loop over corrections.
RenderCorrection ==
    /\ opc = "loop"
    /\ k <= Len(corrections)
    /\ drawn' = drawn \o DrawCorrection(corrections[k], k)
    /\ k' = k + 1
    /\ UNCHANGED <<img_width, img_height, font_size, font_found, corrections, assessment,
                   total_height, font, mark_size, opc>>
    /\ UNCHANGED <<footer, output_path, composite_path, files>>
    /\ UNCHANGED <<gvars, pvars, wvars>>

\* The loop is exhausted; line 173 is next.
LoopEnd ==
    /\ opc = "loop"
    /\ k > Len(corrections)
    /\ opc' = "assessment"
    /\ UNCHANGED <<img_width, img_height, font_size, font_found, corrections, assessment,
                   total_height, font, mark_size, k, drawn>>
    /\ UNCHANGED <<footer, output_path, composite_path, files>>
    /\ UNCHANGED <<gvars, pvars, wvars>>

\* Line 173: the footer is drawn.
DrawAssessment ==
    /\ opc = "assessment"
    /\ footer' = draw_overall_assessment(assessment, img_width, img_height, font_size)
    /\ opc' = "save"
    /\ UNCHANGED <<img_width, img_height, font_size, font_found, corrections, assessment,
                   total_height, font, mark_size, k, drawn>>
    /\ UNCHANGED <<output_path, composite_path, files>>
    /\ UNCHANGED <<gvars, pvars, wvars>>

\* Line 175: overlay.save(output_path).
SaveOverlay ==
    /\ opc = "save"
    /\ files' = save(files, output_path, "overlay")
    /\ opc' = "composite"
    /\ UNCHANGED <<img_width, img_height, font_size, font_found, corrections, assessment,
                   total_height, font, mark_size, k, drawn>>
    /\ UNCHANGED <<footer, output_path, composite_path>>
    /\ UNCHANGED <<gvars, pvars, wvars>>

\* Lines 177-183: the composite is built and saved at composite_path.
SaveComposite ==
    /\ opc = "composite"
    /\ composite_path' = replace(output_path, DotPng, CompleteDotPng)
    /\ files' = save(files, composite_path', "composite")
    /\ opc' = "done"
    /\ UNCHANGED <<img_width, img_height, font_size, font_found, corrections, assessment,
                   total_height, font, mark_size, k, drawn>>
    /\ UNCHANGED <<footer, output_path>>
    /\ UNCHANGED <<gvars, pvars, wvars>>

NextOverlay ==
    \/ OpenImage
    \/ RenderCorrection
    \/ LoopEnd
    \/ DrawAssessment
    \/ SaveOverlay
    \/ SaveComposite

SpecOverlay == InitOverlay /\ [][NextOverlay]_vars

(***************************************************************************)
(* run_pipeline and get_corrections_from_prompt.                           *)
(*                                                                         *)
(* source is what the judge side holds: for the live call the model's      *)
(* response, for --use-corrections and --skip-openai the corrections file. *)
(* kind "data" carries the parsed JSON object.  The OCR boxes, the prompt  *)
(* text and the files written are not part of this state: the steps that   *)
(* produce them are kept for their place in the control flow.              *)
(***************************************************************************)
PipelineFontSize == 32

JudgeCorrections == {<<>>, <<[status |-> "correct", bbox |-> BB(0, 0, 40, 20)]>>}

JudgeAssessments == {EmptyDict, [final_answer_status |-> StatusCorrect]}

\* Every JSON object over the keys "corrections" and "overall_assessment".
JudgeData ==
    {EmptyDict}
    \cup {[corrections |-> c] : c \in JudgeCorrections}
    \cup {[overall_assessment |-> a] : a \in JudgeAssessments}
    \cup {[corrections |-> c, overall_assessment |-> a] :
             c \in JudgeCorrections, a \in JudgeAssessments}

Sources(mode) ==
    {[kind |-> "data", data |-> d] : d \in JudgeData}
    \cup {[kind |-> "no_json"]}
    \cup (IF mode = "live" THEN {[kind |-> "call_failed"]} ELSE {})

\* gpt_corrections.py lines 71-92: a failed call raises RuntimeError, a
\* response without a JSON object raises ValueError, and so does a JSON
\* object without "corrections"; a missing "overall_assessment" becomes {}.
get_corrections_from_prompt(src) ==
    IF src.kind = "call_failed" THEN [error |-> "RuntimeError"]
    ELSE IF src.kind = "no_json" THEN [error |-> "ValueError"]
    ELSE IF "corrections" \notin DOMAIN src.data THEN [error |-> "ValueError"]
    ELSE IF "overall_assessment" \notin DOMAIN src.data
    THEN [key \in DOMAIN src.data \cup {"overall_assessment"} |->
             IF key = "overall_assessment" THEN EmptyDict ELSE src.data[key]]
    ELSE src.data

\* json.load(f) of a corrections file: a file that holds no JSON raises.
json_load(src) ==
    IF src.kind = "data" THEN src.data ELSE [error |-> "JSONDecodeError"]

InitPipeline ==
    /\ GroupIdle
    /\ OverlayIdle
    /\ WrapIdle
    /\ ocr_mode \in {"use_ocr_json", "vision", "skip_ocr"}
    /\ judge_mode \in {"use_corrections_json", "live", "skip_openai"}
    /\ source \in Sources(judge_mode)
    /\ payload = EmptyDict
    /\ ppc = "extract"

\* run_pipeline lines 33-41.
ExtractText ==
    /\ ppc = "extract"
    /\ ppc' = "visualize"
    /\ UNCHANGED <<ocr_mode, judge_mode, source, payload>>
    /\ UNCHANGED <<gvars, ovars, wvars>>

\* Lines 43-48: an exception of visualize_bounding_boxes is swallowed.
VisualizeBoxes ==
    /\ ppc = "visualize"
    /\ ppc' = "prompt"
    /\ UNCHANGED <<ocr_mode, judge_mode, source, payload>>
    /\ UNCHANGED <<gvars, ovars, wvars>>

\* Lines 50-54.
BuildPrompt ==
    /\ ppc = "prompt"
    /\ ppc' = "judge"
    /\ UNCHANGED <<ocr_mode, judge_mode, source, payload>>
    /\ UNCHANGED <<gvars, ovars, wvars>>

\* Lines 56-64: the payload from the file named by --use-corrections, from
\* the live call, or from corrections.json of the output directory.
ObtainCorrections ==
    /\ ppc = "judge"
    /\ LET got == IF judge_mode = "live" THEN get_corrections_from_prompt(source)
                  ELSE json_load(source)
       IN IF IsError(got)
          THEN /\ ppc' = "raised"
               /\ UNCHANGED payload
          ELSE /\ payload' = got
               /\ ppc' = "save_corrections"
    /\ UNCHANGED <<ocr_mode, judge_mode, source>>
    /\ UNCHANGED <<gvars, ovars, wvars>>

\* Lines 66-68.
SaveCorrections ==
    /\ ppc = "save_corrections"
    /\ ppc' = "save_ocr"
    /\ UNCHANGED <<ocr_mode, judge_mode, source, payload>>
    /\ UNCHANGED <<gvars, ovars, wvars>>

\* Lines 70-74.
SaveOcrData ==
    /\ ppc = "save_ocr"
    /\ ppc' = "layout"
    /\ UNCHANGED <<ocr_mode, judge_mode, source, payload>>
    /\ UNCHANGED <<gvars, ovars, wvars>>

\* Lines 76-85: create_overlay is entered with corrections.get("corrections", [])
\* and corrections.get("overall_assessment", {}).
CallCreateOverlay ==
    /\ ppc = "layout"
    /\ corrections' = Get(payload, "corrections", <<>>)
    /\ assessment' = Get(payload, "overall_assessment", EmptyDict)
    /\ font_size' = PipelineFontSize
    /\ opc' = "start"
    /\ ppc' = "create_overlay"
    /\ output_path' = DefaultOutputPath
    /\ UNCHANGED <<img_width, img_height, font_found, total_height, font, mark_size, k, drawn>>
    /\ UNCHANGED <<footer, composite_path, files>>
    /\ UNCHANGED <<ocr_mode, judge_mode, source, payload>>
    /\ UNCHANGED <<gvars, wvars>>

NextPipeline ==
    \/ ExtractText
    \/ VisualizeBoxes
    \/ BuildPrompt
    \/ ObtainCorrections
    \/ SaveCorrections
    \/ SaveOcrData
    \/ CallCreateOverlay

SpecPipeline == InitPipeline /\ [][NextPipeline]_vars

\* create_overlay over the footer and the output files: any assessment, any
\* output path, the correction lists of the pipeline's judge.
InitRender ==
    /\ GroupIdle
    /\ PipelineIdle
    /\ WrapIdle
    /\ img_width \in ImageWidths
    /\ img_height \in ImageHeights
    /\ font_size \in FontSizes
    /\ font_found \in BOOLEAN
    /\ corrections \in JudgeCorrections
    /\ assessment \in AssessmentPool
    /\ output_path \in PathPool
    /\ OverlayLocals

SpecRender == InitRender /\ [][NextOverlay]_vars

(***************************************************************************)
(* wrap_text on its own: any short text over two letters and the blank, a  *)
(* TrueType or the built-in font, a few widths.                            *)
(***************************************************************************)
WrapChars == {"a", "b", " "}

WrapFonts == {[kind |-> "truetype", size |-> 12], [kind |-> "default"]}

WrapWidths == {0, 14, 21, 30}

InitWrap ==
    /\ GroupIdle
    /\ OverlayIdle
    /\ PipelineIdle
    /\ w_text \in SeqsUpTo(WrapChars, MaxTextLen)
    /\ w_font \in WrapFonts
    /\ w_max_width \in WrapWidths
    /\ w_lines = <<>>
    /\ wpc = "start"

\* Lines 75-98: one call of wrap_text.
CallWrapText ==
    /\ wpc = "start"
    /\ w_lines' = wrap_text(w_text, w_font, w_max_width)
    /\ wpc' = "done"
    /\ UNCHANGED <<w_text, w_font, w_max_width>>
    /\ UNCHANGED <<gvars, ovars, pvars>>

NextWrap == CallWrapText

SpecWrap == InitWrap /\ [][NextWrap]_vars

(***************************************************************************)
(* Properties of the clustering engine.                                    *)
(***************************************************************************)
Positions == 1..Len(text_data)

\* The groups (as sets of positions) a list of groups holds.
GroupSets(ms) == {Range(ms[g]) : g \in DOMAIN ms}

GroupOf(ms, p) == {g \in DOMAIN ms : \E q \in DOMAIN ms[g] : ms[g][q] = p}

\* The undirected merge graph over the input positions.
Edge(p, q, cfg) ==
    \/ should_merge_boxes(text_data[p], text_data[q], cfg)
    \/ should_merge_boxes(text_data[q], text_data[p], cfg)

RECURSIVE Closure(_, _)
Closure(S, cfg) ==
    LET T == S \cup {q \in Positions : \E p \in S : Edge(p, q, cfg)}
    IN IF T = S THEN S ELSE Closure(T, cfg)

Components(cfg) == {Closure({p}, cfg) : p \in Positions}

\* C1: when improved_group_nearby_boxes returns, every input position occurs
\* exactly once over all groups (once in one group, in no other), so the
\* group sizes sum to the number of input boxes, one region per group.
C1_Partition ==
    pc = "done" =>
        /\ \A p \in Positions :
              Cardinality({<<g, q>> \in (DOMAIN members) \X Positions :
                              q \in DOMAIN members[g] /\ members[g][q] = p}) = 1
        /\ \A g \in DOMAIN members : Range(members[g]) \subseteq Positions
        /\ SeqSum([g \in DOMAIN members |-> Len(members[g])]) = Len(text_data)
        /\ Len(ret) = Len(members)

C1_Witness ==
    /\ pc = "done"
    /\ Len(text_data) = 3
    /\ Len(members) = 2

\* C2: the groups are exactly the connected components of the undirected
\* graph whose edges are the pairs should_merge_boxes accepts; a chain whose
\* ends are not directly mergeable is one region; there is exactly one region
\* iff the input is non-empty and every two boxes are connected.
C2_ConnectedComponents ==
    pc = "done" =>
        /\ GroupSets(members) = Components(config)
        /\ (Len(ret) = 1) <=>
              (Positions # {} /\ \A p, q \in Positions : q \in Closure({p}, config))

\* A chain: one region holding two boxes that are not directly mergeable.
C2_Witness ==
    /\ pc = "done"
    /\ Len(ret) = 1
    /\ \E p, q \in Positions : ~Edge(p, q, config)

\* C3: after a second call on the same boxes with one threshold raised and
\* the others unchanged, every two boxes that shared a group still share one,
\* and no box's group has become smaller.
C3_Monotonic ==
    (pc = "done" /\ calls = 2) =>
        /\ \A p, q \in Positions :
              GroupOf(prev_members, p) = GroupOf(prev_members, q)
                  => GroupOf(members, p) = GroupOf(members, q)
        /\ \A p \in Positions :
              \A g \in GroupOf(prev_members, p) : \A h \in GroupOf(members, p) :
                  Len(prev_members[g]) <= Len(members[h])

\* A raised threshold that merged two groups.
C3_Witness ==
    /\ pc = "done"
    /\ calls = 2
    /\ Len(members) < Len(prev_members)

SetMin(S) == CHOOSE m \in S : \A e \in S : m <= e

SetMax(S) == CHOOSE m \in S : \A e \in S : m >= e

CornerXs(grp) ==
    {text_data[p].bbox.top_left[1] : p \in Range(grp)}
        \cup {text_data[p].bbox.bottom_right[1] : p \in Range(grp)}

CornerYs(grp) ==
    {text_data[p].bbox.top_left[2] : p \in Range(grp)}
        \cup {text_data[p].bbox.bottom_right[2] : p \in Range(grp)}

\* C4: every emitted region's bbox is the envelope of its group: top_left
\* the minimum x and y over the members' corners, bottom_right the maximum;
\* the words A and B of the example merge into [10,10]-[90,32].
C4_Envelope ==
    /\ \A g \in DOMAIN grouped :
          /\ grouped[g].bbox.top_left = <<SetMin(CornerXs(members[g])), SetMin(CornerYs(members[g]))>>
          /\ grouped[g].bbox.bottom_right = <<SetMax(CornerXs(members[g])), SetMax(CornerYs(members[g]))>>
    /\ (pc = "done" /\ text_data = <<WordA, WordB>> /\ config = DefaultConfig) =>
          /\ Len(ret) = 1
          /\ ret[1].bbox.top_left = <<10, 10>>
          /\ ret[1].bbox.bottom_right = <<90, 32>>

\* A region of two boxes whose first box in reading order does not hold the
\* leftmost corner.
C4_Witness ==
    /\ pc = "done"
    /\ \E g \in DOMAIN ret :
          /\ Len(members[g]) >= 2
          /\ \E p \in Range(members[g]) :
                /\ text_data[p].bbox.top_left[2] = ret[g].bbox.top_left[2]
                /\ text_data[p].bbox.top_left[1] > ret[g].bbox.top_left[1]

\* C9 (as claimed): every returned region carries a source count equal to
\* the size of its group; a group of one returns its box's text, confidence
\* and bbox with a source count of 1; empty input returns an empty list.
C9_SourceCount ==
    pc = "done" =>
        /\ Len(ret) = Len(members)
        /\ text_data = <<>> => ret = <<>>
        /\ \A g \in DOMAIN ret :
              /\ "original_boxes" \in DOMAIN ret[g]
              /\ ret[g].original_boxes = Len(members[g])
              /\ Len(members[g]) = 1 =>
                    /\ ret[g].text = text_data[members[g][1]].text
                    /\ ret[g].confidence = text_data[members[g][1]].confidence
                    /\ ret[g].bbox = text_data[members[g][1]].bbox

(***************************************************************************)
(* Properties of the annotation layout engine.                             *)
(***************************************************************************)
CorrTopLeft(c) == Get(Get(c, "bbox", EmptyDict), "top_left", <<0, 0>>)

CorrBottomRight(c) == Get(Get(c, "bbox", EmptyDict), "bottom_right", <<0, 0>>)

\* Non-positive width or height.
NonPositive(c) ==
    \/ CorrBottomRight(c)[1] - CorrTopLeft(c)[1] <= 0
    \/ CorrBottomRight(c)[2] - CorrTopLeft(c)[2] <= 0

PositiveArea(c) == ~NonPositive(c)

\* The draw calls made for the correction at position p, in order.
OpsOf(p) == SelectSeq(drawn, LAMBDA o : o.src = p)

\* A draw call without its history.
Shape(o) == [f \in DOMAIN o \ {"src", "tried"} |-> o[f]]

Shapes(ops) == [n \in DOMAIN ops |-> Shape(ops[n])]

RECURSIVE RenderList(_, _)
RenderList(cs, n) ==
    IF n = 0 THEN <<>> ELSE RenderList(cs, n - 1) \o DrawCorrection(cs[n], n)

HasLabel(c) ==
    /\ Get(c, "corrected_text", <<>>) # <<>>
    /\ Get(c, "corrected_text", <<>>) # Get(c, "original_text", <<>>)

\* C5 (as claimed): every label drawn, taken as the rectangle at
\* (text_x, text_y) of the measured width and height, lies inside
\* [0, image_width] x [0, image_height].
C5_LabelOnCanvas ==
    \A n \in DOMAIN drawn :
        drawn[n].op = "text" =>
            /\ 0 <= drawn[n].xy[1]
            /\ drawn[n].xy[1] + drawn[n].width <= img_width
            /\ 0 <= drawn[n].xy[2]
            /\ drawn[n].xy[2] + drawn[n].height <= img_height

\* C6 (as claimed): the label is tried right of the box at its top edge,
\* then, if that overflows the right edge, left of the box, then, if that is
\* negative, directly below the box, with no other position in between; the
\* result is then clamped.
C6_FallbackOrder_Original ==
    \A n \in DOMAIN drawn :
        drawn[n].op = "text" =>
            LET t == drawn[n]
                tl == CorrTopLeft(corrections[t.src])
                br == CorrBottomRight(corrections[t.src])
                right == <<br[1] + mark_size + 10, tl[2]>>
                left == <<tl[1] - t.width - 10, tl[2]>>
                last == t.tried[Len(t.tried)]
            IN /\ t.tried[1] = right
               /\ (Len(t.tried) >= 2) <=> (right[1] + t.width > img_width)
               /\ Len(t.tried) >= 2 => t.tried[2] = left
               /\ (Len(t.tried) >= 3) <=> (Len(t.tried) >= 2 /\ left[1] < 0)
               /\ Len(t.tried) >= 3 => t.tried[3][2] = br[2] + 5
               /\ Len(t.tried) <= 3
               /\ t.xy = <<Max2(0, Min2(last[1], img_width - t.width)),
                           Max2(0, Min2(last[2], img_height - t.height))>>

\* C6 (amended): right of the box at its top edge; if that overflows the
\* right edge, left of the box; if that is negative, above the box at its
\* left edge; if that is negative, below the box at its left edge; nothing
\* else is tried; then each coordinate c becomes
\* max(0, min(c, image_dimension - text_dimension)).
C6_FallbackOrder ==
    \A n \in DOMAIN drawn :
        drawn[n].op = "text" =>
            LET t == drawn[n]
                tl == CorrTopLeft(corrections[t.src])
                br == CorrBottomRight(corrections[t.src])
                right == <<br[1] + mark_size + 10, tl[2]>>
                left == <<tl[1] - t.width - 10, tl[2]>>
                above == <<tl[1], tl[2] - t.height - 5>>
                below == <<tl[1], br[2] + 5>>
                last == t.tried[Len(t.tried)]
            IN /\ t.tried[1] = right
               /\ (Len(t.tried) >= 2) <=> (right[1] + t.width > img_width)
               /\ Len(t.tried) >= 2 => t.tried[2] = left
               /\ (Len(t.tried) >= 3) <=> (Len(t.tried) >= 2 /\ left[1] < 0)
               /\ Len(t.tried) >= 3 => t.tried[3] = above
               /\ (Len(t.tried) >= 4) <=> (Len(t.tried) >= 3 /\ above[2] < 0)
               /\ Len(t.tried) >= 4 => t.tried[4] = below
               /\ Len(t.tried) <= 4
               /\ t.xy = <<Max2(0, Min2(last[1], img_width - t.width)),
                           Max2(0, Min2(last[2], img_height - t.height))>>
               /\ (t.width <= img_width /\ t.height <= img_height) =>
                     /\ t.xy[1] \in 0..(img_width - t.width)
                     /\ t.xy[2] \in 0..(img_height - t.height)

\* A label that went through every fallback and was then moved by the clamp.
C6_Witness ==
    \E n \in DOMAIN drawn :
        /\ drawn[n].op = "text"
        /\ Len(drawn[n].tried) = 4
        /\ drawn[n].xy # drawn[n].tried[4]

\* C7: a correction whose bbox has non-positive width or height makes no
\* draw call, whatever its status, the loop raises nothing and goes on, and
\* the overlay is the one the list without those corrections produces.
C7_SkipRule ==
    /\ \A n \in DOMAIN drawn : PositiveArea(corrections[drawn[n].src])
    /\ opc \in {"start", "loop", "assessment", "save", "composite", "done"}
    /\ opc = "assessment" =>
          LET kept == SelectSeq(corrections, PositiveArea)
          IN Shapes(drawn) = Shapes(RenderList(kept, Len(kept)))

\* A box of negative width and positive height was skipped and a later
\* correction was drawn.
C7_Witness ==
    /\ opc = "assessment"
    /\ \E p \in DOMAIN corrections :
          /\ CorrBottomRight(corrections[p])[1] - CorrTopLeft(corrections[p])[1] < 0
          /\ CorrBottomRight(corrections[p])[2] - CorrTopLeft(corrections[p])[2] > 0
          /\ \E n \in DOMAIN drawn : drawn[n].src > p

\* C10: for a correction of positive area that the loop has passed, status
\* decides the draw calls: "correct" makes two connected line segments and
\* nothing else, whatever its texts; "incorrect" (also the default of a
\* missing status) makes one outline, an ellipse when marking is "circle"
\* and a rectangle otherwise, followed by one text label exactly when
\* corrected_text is non-empty and differs from original_text; any other
\* status makes no draw call.
C10_StatusDecides ==
    opc \in {"loop", "assessment"} =>
        \A p \in 1..(k - 1) :
            PositiveArea(corrections[p]) =>
                LET c == corrections[p]
                    status == Get(c, "status", "incorrect")
                    ops == OpsOf(p)
                IN /\ status = "correct" =>
                         /\ Len(ops) = 2
                         /\ ops[1].op = "line"
                         /\ ops[2].op = "line"
                         /\ ops[1].to = ops[2].from
                   /\ status = "incorrect" =>
                         /\ Len(ops) = IF HasLabel(c) THEN 2 ELSE 1
                         /\ ops[1].op = IF Get(c, "marking", "rectangle") = "circle"
                                        THEN "ellipse" ELSE "rectangle"
                         /\ HasLabel(c) =>
                               /\ ops[2].op = "text"
                               /\ ops[2].text = c.corrected_text
                   /\ status \notin {"correct", "incorrect"} => ops = <<>>

\* A "correct" record that carries a differing corrected_text was drawn.
C10_Witness ==
    /\ opc = "assessment"
    /\ \E p \in DOMAIN corrections :
          /\ PositiveArea(corrections[p])
          /\ Get(corrections[p], "status", "incorrect") = "correct"
          /\ HasLabel(corrections[p])
          /\ Len(OpsOf(p)) = 2

(***************************************************************************)
(* Properties of the pipeline.                                             *)
(***************************************************************************)
\* C8 (as claimed): however the payload is obtained, a payload without the
\* "corrections" key never reaches create_overlay, and a payload that lacks
\* only "overall_assessment" is not refused and enters create_overlay with
\* its corrections and an empty assessment.
C8_AbortBeforeLayout ==
    source.kind = "data" =>
        /\ "corrections" \notin DOMAIN source.data => ppc # "create_overlay"
        /\ ("corrections" \in DOMAIN source.data
              /\ "overall_assessment" \notin DOMAIN source.data) =>
                 /\ ppc # "raised"
                 /\ ppc = "create_overlay" =>
                       /\ corrections = source.data.corrections
                       /\ assessment = EmptyDict


(***************************************************************************)
(* Properties of the output files and of the footer.                       *)
(***************************************************************************)
CompleteSuffix == SubSeq(CompleteDotPng, 1, Len(CompleteDotPng) - Len(DotPng))

\* The path with the suffix put after its base name, before its extension.
SuffixedBaseName(path) ==
    LET dots == {n \in DOMAIN path : path[n] = "."}
    IN IF dots = {} THEN path \o CompleteSuffix
       ELSE LET d == SetMax(dots)
            IN SubSeq(path, 1, d - 1) \o CompleteSuffix \o SubSeq(path, d, Len(path))

\* C11: for every output path the caller supplies, a finished create_overlay
\* has written two distinct files: the overlay at the supplied path and the
\* composite at that path with "_complete" after the base name; the composite
\* was not written over the overlay.
C11_TwoDistinctFiles ==
    opc = "done" =>
        /\ composite_path # output_path
        /\ composite_path = SuffixedBaseName(output_path)
        /\ DOMAIN files = {output_path, composite_path}
        /\ files[output_path] = "overlay"
        /\ files[composite_path] = "composite"


Present(field) ==
    /\ field \in DOMAIN assessment
    /\ assessment[field] # <<>>
    /\ assessment[field] # NotProvided

\* Some footer draw call writes this header.
BlockRendered(header) == \E n \in DOMAIN footer : footer[n].text = header

\* C12: once the footer is drawn, its third draw call is the status line: the
\* upper-cased status in green for "correct", red for "incorrect" and orange
\* for any other value; a Key Strengths or Areas for Improvement block is
\* rendered only when its field is present, non-empty and not "Not provided";
\* with an empty overall_assessment the status line reads NOT PROVIDED in
\* orange and the footer holds nothing but the title, the Final Answer header
\* and the status line.
C12_FooterRule ==
    opc \in {"save", "composite", "done"} =>
        LET status == Get(assessment, "final_answer_status", NotProvided)
        IN /\ Len(footer) >= 3
           /\ footer[3].text = <<"-", " ">> \o upper(status)
           /\ footer[3].fill = IF status = StatusCorrect THEN green_color
                               ELSE IF status = StatusIncorrect THEN red_color
                               ELSE orange_color
           /\ BlockRendered(KeyStrengthsText) => Present("key_strengths")
           /\ BlockRendered(AreasText) => Present("areas_for_improvement")
           /\ assessment = EmptyDict =>
                 /\ footer[3].text = 
                       <<"-", " ", "N", "O", "T", " ", "P", "R", "O", "V", "I", "D", "E", "D">>
                 /\ footer[3].fill = orange_color
                 /\ footer[3].fill \notin {green_color, red_color}
                 /\ Len(footer) = 3
                 /\ ~BlockRendered(KeyStrengthsText)
                 /\ ~BlockRendered(AreasText)

\* The footer of an empty overall_assessment was drawn.
C12_Witness ==
    /\ opc = "done"
    /\ assessment = EmptyDict
    /\ Len(footer) = 3
    /\ footer[3].fill = orange_color


(***************************************************************************)
(* Properties of a region's text and of the region ids.                    *)
(***************************************************************************)
\* The orderings of a group's positions.
Orderings(grp) ==
    {f \in [1..Len(grp) -> Range(grp)] : \A a, b \in 1..Len(grp) : a # b => f[a] # f[b]}

\* Ascending by (top_left.y, top_left.x).
InReadingOrder(f) ==
    \A a, b \in DOMAIN f : a < b => ~SortKeyLess(text_data[f[b]], text_data[f[a]])

SameKey(p, q) == text_data[p].bbox.top_left = text_data[q].bbox.top_left

IndexIn(grp, p) == CHOOSE n \in DOMAIN grp : grp[n] = p

\* Boxes with the same top-left corner keep the order in which they joined the group.
TiesInGroupOrder(f, grp) ==
    \A a, b \in DOMAIN f :
        (a < b /\ SameKey(f[a], f[b])) => IndexIn(grp, f[a]) < IndexIn(grp, f[b])

JoinedTexts(f) == join([n \in DOMAIN f |-> text_data[f[n]].text])

\* C13 (as claimed): a region's text is the single-space join of its group's
\* texts sorted ascending by (top_left.y, top_left.x), whatever the order in
\* which the boxes were added to the group or appeared in the input: every
\* ordering of the group that is ascending by that key gives the text.
C13_ReadingOrder_Original ==
    pc = "done" =>
        \A g \in DOMAIN ret :
            \A f \in Orderings(members[g]) :
                InReadingOrder(f) => ret[g].text = JoinedTexts(f)

\* C13 (amended): a region's text is the single-space join of its group's
\* texts sorted ascending by (top_left.y, top_left.x), boxes with the same
\* top-left corner staying in the order in which they joined the group; when
\* the corners of the group are pairwise distinct the text does not depend
\* on the order of the group or of the input.
C13_ReadingOrder ==
    pc = "done" =>
        \A g \in DOMAIN ret :
            /\ \A f \in Orderings(members[g]) :
                  (InReadingOrder(f) /\ TiesInGroupOrder(f, members[g]))
                      => ret[g].text = JoinedTexts(f)
            /\ (\A p, q \in Range(members[g]) : p # q => ~SameKey(p, q)) =>
                  \A f \in Orderings(members[g]) :
                      merge_boxes([n \in DOMAIN f |-> text_data[f[n]]]).text = ret[g].text

\* A group was joined out of reading order and holds two boxes of one
\* top-left corner and different texts.
C13_Witness ==
    /\ pc = "done"
    /\ \E g \in DOMAIN ret :
          /\ ~InReadingOrder(members[g])
          /\ \E p, q \in Range(members[g]) :
                /\ p # q
                /\ SameKey(p, q)
                /\ text_data[p].text # text_data[q].text


\* C14: the returned regions carry the ids 0..N-1, each region's id being its
\* position in the returned list, whatever ids the input boxes carry; the
\* regions come in increasing order of the smallest input position of their
\* groups.
C14_DenseIds ==
    pc = "done" =>
        /\ \A g \in DOMAIN ret : ret[g].id = g - 1
        /\ {ret[g].id : g \in DOMAIN ret} = 0..(Len(ret) - 1)
        /\ \A g, h \in DOMAIN ret :
              g < h => SetMin(Range(members[g])) < SetMin(Range(members[h]))

\* Two regions were returned and one has an id that none of its boxes carried.
C14_Witness ==
    /\ pc = "done"
    /\ Len(ret) >= 2
    /\ \E g \in DOMAIN ret :
          ret[g].id \notin {text_data[p].id : p \in Range(members[g])}


(***************************************************************************)
(* Properties of wrap_text.                                                *)
(***************************************************************************)
RECURSIVE Flatten(_)
Flatten(seqs) == IF seqs = <<>> THEN <<>> ELSE seqs[1] \o Flatten(Tail(seqs))

LineWords(n) == split(w_lines[n])

MeasuredWidth(line) == textbbox(line, w_font)[1]

\* C15: the words of the returned lines, taken in order, are the
\* whitespace-split words of the text; every line is non-empty and is its
\* words joined by single blanks; every line of two or more words measures
\* at most max_width; at every line break the line with the next word
\* appended would measure more than max_width (so a word wider than
\* max_width is alone on its line).
C15_Greedy ==
    wpc = "done" =>
        /\ Flatten([n \in DOMAIN w_lines |-> LineWords(n)]) = split(w_text)
        /\ \A n \in DOMAIN w_lines :
              /\ w_lines[n] # <<>>
              /\ w_lines[n] = join(LineWords(n))
              /\ Len(LineWords(n)) >= 2 => MeasuredWidth(w_lines[n]) <= w_max_width
              /\ \A m \in 1..Len(LineWords(n)) :
                    MeasuredWidth(LineWords(n)[m]) > w_max_width => Len(LineWords(n)) = 1
              /\ n < Len(w_lines) =>
                    MeasuredWidth(join(Append(LineWords(n), LineWords(n + 1)[1]))) > w_max_width

\* A text was broken after a line of two words, and one of its words, wider
\* than max_width, got a line of its own.
C15_Witness ==
    /\ wpc = "done"
    /\ \E n \in DOMAIN w_lines :
          /\ n < Len(w_lines)
          /\ Len(LineWords(n)) >= 2
    /\ \E n \in DOMAIN w_lines : MeasuredWidth(w_lines[n]) > w_max_width

====
